---- MODULE Spec2Model ----
(***************************************************************************)
(* Upload pipeline of the BAR file watcher (index.js): the per-path        *)
(* debounce timers, the module-level token cache and the uploadBarFile     *)
(* attempts that run interleaved on the Node event loop, together with the *)
(* start of the program (configuration check, initializeWatcher), the      *)
(* callbacks of the chokidar watcher and the SIGINT handler.               *)
(*                                                                         *)
(* One action is one event-loop task together with the microtasks it       *)
(* drains.  An await of fetch() and the await of the body read that        *)
(* follows it touch no shared state in between, so the model resumes the   *)
(* caller once, when the body read has settled.                            *)
(*                                                                         *)
(* Time is the value of Date.now().  A timer runs its callback at its      *)
(* deadline: the clock does not pass a deadline and no other callback is   *)
(* served while a timer is due (the timers phase comes first in a loop     *)
(* iteration).                                                             *)
(***************************************************************************)
EXTENDS Integers, Sequences, FiniteSets, TLC

\* ------------------------------------------------------------------ bounds
MaxEvents == 6       \* notifications, signals and call outcomes explored
MaxAttempts == 2     \* uploadBarFile attempts (timer callbacks) explored

\* --------------------------------------------------------------- constants
\* config.debounceMs, read from DEBOUNCE_MS: 2 ms here, so that a second
\* change can arrive inside the quiet period
debounceMs == 2
TokenTtlMs == 50 * 60 * 1000

Null == 0
NoTimer == 0
Never == -1

\* files of the watched directory whose extension is config.fileExtension
Paths == {"a.bar", "b.bar"}
\* the other files the watcher reports
OtherFiles == {"d.BAR", "bar"}
Files == Paths \cup OtherFiles

\* lines 12-22: the settings read from the environment
Settings ==
  {"watchDirectory", "apiBaseUrl", "clientId", "clientSecret", "apiKey",
   "instanceId", "integrationServerId"}
\* no setting is absent
AllSet == "none"
\* lines 25-48: the settings whose absence ends the program
ValidatedSettings ==
  {"clientId", "clientSecret", "apiKey", "instanceId", "integrationServerId"}

\* process.exitCode while the process is alive
Running == -1
\* notifications of the watcher that leave the pipeline alone: a file with
\* another extension, a watcher error
NoticeKinds == {"ignored", "error"}
Attempts == 1..MaxAttempts
\* a non-success status of the token endpoint (line 88 tests response.ok only)
TokenFailStatuses == {401}
UploadStatuses == {200, 401, 500}
\* the call settled without a usable response: fetch rejected, or the body
\* read (response.json() / response.text()) rejected
TransportError == 0
\* the file when uploadBarFile reaches lines 121-122: there, gone, or gone
\* at line 122 and back by the time the stream of line 121 is opened
FileStates == {"ok", "gone", "back"}

VARIABLES
  now,             \* Date.now()
  cachedToken,     \* module variable cachedToken (Null = null)
  tokenExpiry,     \* module variable tokenExpiry (Null = null)
  debounceTimers,  \* Map filePath -> timer handle (NoTimer = no entry)
  timers,          \* armed timers of the runtime: [id, path, fireAt]
  timerSeq,        \* number of setTimeout calls so far (next handle - 1)
  att,             \* uploadBarFile attempts, one per timer callback
  nAtt,            \* number of attempts started
  tokenCalls,      \* external token-acquisition calls issued so far
  lastCall,        \* history: time of the last handleFileChange(p) still pending
  bursts,          \* history: bursts of handleFileChange(p) calls begun
  triggers,        \* history: timer callbacks run for p
  missing,         \* environment: the setting that is absent (AllSet = none)
  dirExists,       \* environment: the configured directory exists
  exitCode,        \* status the process exited with (Running = alive)
  watcher,         \* the chokidar watcher: "none", "scanning", "ready", "closed"
  handlers,        \* events a handler is registered for
  notices,         \* history: notifications that were not forwarded, by kind
  events           \* history: file and error notifications and settled calls

vars == <<now, cachedToken, tokenExpiry, debounceTimers, timers, timerSeq,
          att, nAtt, tokenCalls, lastCall, bursts, triggers,
          missing, dirExists, exitCode, watcher, handlers, notices, events>>

envVars == <<missing, dirExists>>
watchVars == <<watcher, handlers, notices>>

tokenVars == <<cachedToken, tokenExpiry>>
timerVars == <<debounceTimers, timers, timerSeq, lastCall, bursts, triggers>>

\* ------------------------------------------------------------ attempt data
IdleAttempt ==
  [path |-> "", pc |-> "idle", token |-> Null, log |-> <<>>,
   result |-> "none", err |-> Null, promise |-> "pending",
   bearer |-> Null, stream |-> "none"]

Count(s, e) == Cardinality({i \in 1..Len(s) : s[i] = e})

Responses(s) == SelectSeq(s, LAMBDA e : e \in {"r200", "r401", "r500", "reject"})

RECURSIVE CountAll(_, _)
CountAll(n, es) ==
  IF n = 0 THEN 0
  ELSE CountAll(n - 1, es)
       + Cardinality({i \in 1..Len(att[n].log) : att[n].log[i] \in es})

\* line 93: tokenData.access_token; the endpoint grants a new token value
\* with every acquisition
IssuedToken == CountAll(MaxAttempts, {"tokenOk"}) + 1

StatusEntry(status) ==
  CASE status = 200 -> "r200"
    [] status = 401 -> "r401"
    [] OTHER -> "r500"

\* ---------------------------------------------------------- generateToken
\* variants of the cache test: one that never trusts the cache, one that
\* forgets to compare the clock with the expiry
NeverValid(tok, exp, t) == FALSE
IgnoresExpiry(tok, exp, t) == tok # Null

\* line 63: if (cachedToken && tokenExpiry && Date.now() < tokenExpiry)
CacheValid(tok, exp, t) == tok # Null /\ exp # Null /\ t < exp

\* line 97: tokenExpiry = Date.now() + (50 * 60 * 1000)
NewExpiry(t) == t + TokenTtlMs

\* variant: the failure path stores the missing access_token
ClearedOnFailure(tok) == Null

\* lines 88-91, 101-104: a failed acquisition throws before line 94
TokenAfterFailure(tok) == tok

\* ---------------------------------------------------------- uploadBarFile
\* line 149: response.ok
ResponseOk(status) == status >= 200 /\ status <= 299

\* variant: every rejected upload is retried
RetryOnAnyError(status, tok) == tok # Null

\* line 160: if (response.status === 401 && cachedToken)
ShouldRetry(status, tok) == status = 401 /\ tok # Null

\* variant: the 401 branch retries without clearing the cache
KeepsValue(v) == v

\* lines 162-163: cachedToken = null; tokenExpiry = null
Invalidated(v) == Null

\* lines 149-167, 174: the function runs to its end and its promise is
\* fulfilled, after a success as after a rejected upload that is not retried
Returns(rec, result) ==
  [rec EXCEPT !.pc = "done", !.result = result, !.promise = "fulfilled"]

\* lines 168-174: the catch block logs the error and the function returns
Catch(rec, entry) ==
  Returns([rec EXCEPT !.log = Append(@, entry)], "failed")

\* lines 189-192: the timer callback neither awaits the promise of
\* uploadBarFile nor attaches a handler to it, and the runtime ends the
\* process with status 1 when such a promise is rejected
AfterSettled(rec, code) == IF rec.promise = "rejected" THEN 1 ELSE code

\* line 121 when line 122 throws: the open of a file that is gone fails and
\* the stream emits 'error'; the open of a file that is back by then
\* succeeds, and nothing reads the stream or closes it
Opened(file) == IF file = "back" THEN "leaked" ELSE "errored"

\* line 121: the stream has no 'error' listener, so the runtime ends the
\* process with status 1 (uncaught exception) when the open fails
AfterOpen(rec, code) == IF rec.stream = "errored" THEN 1 ELSE code

\* variant: the request is sent without the token
NoBearer(tok) == Null

\* line 143: 'authorization': `Bearer ${token}`
Bearer(tok) == tok

\* lines 120-147: open the file, stat it, issue the PUT.  The read stream of
\* line 121 is "sending" once it is the body of the request; the code
\* attaches no handler to it and never closes it.
\* file # "ok": fs.statSync throws, the catch of line 168 ends the attempt
\* and the stream of line 121 is left behind, without a listener
IssueUpload(rec, file) ==
  IF file = "ok"
    THEN [rec EXCEPT !.pc = "awaitUpload", !.log = Append(@, "upload"),
                     !.bearer = Bearer(rec.token), !.stream = "sending"]
    ELSE Catch([rec EXCEPT !.stream = Opened(file)], "statFail")

TokenErrorEntry(status) ==
  IF status = TransportError THEN "tokenReject" ELSE "tokenFail"

\* variant: generateToken swallows its error and the upload goes ahead
\* without a token
SwallowsTokenError(rec, status) ==
  IssueUpload([rec EXCEPT !.err = status,
                          !.log = Append(@, TokenErrorEntry(status))], "ok")

\* lines 88-91, 101-104 and 117, 168-173: generateToken throws, the await of
\* line 117 throws in turn and the catch block ends the attempt
TokenError(rec, status) ==
  Catch([rec EXCEPT !.err = status], TokenErrorEntry(status))

\* variant: an invocation made while another attempt for the same path is
\* awaiting an external call is dropped
DropsWhileBusy(rec, tok, exp, file) ==
  IF rec.log = <<>> /\ \E b \in DOMAIN att :
                          /\ att[b].path = rec.path
                          /\ att[b].pc \in {"awaitToken", "awaitUpload"}
    THEN Returns(rec, "failed")
    ELSE IF CacheValid(tok, exp, now)
      THEN IssueUpload([rec EXCEPT !.token = tok, !.log = Append(@, "cached")],
                       file)
      ELSE [rec EXCEPT !.pc = "awaitToken", !.log = Append(@, "tokenCall")]

\* lines 111-118 for the cache state (tok, exp): one invocation of
\* uploadBarFile up to its first suspension on an external call.  Without
\* config.apiBaseUrl the URL of line 70 is not absolute: fetch rejects
\* before any request is sent and the await of line 75 throws in the same
\* task.
Invoke(rec, tok, exp, file) ==
  IF CacheValid(tok, exp, now)
    THEN IssueUpload([rec EXCEPT !.token = tok, !.log = Append(@, "cached"),
                                 !.bearer = Null, !.stream = "none"],
                     file)
    ELSE LET called == [rec EXCEPT !.token = Null,
                                   !.log = Append(@, "tokenCall"),
                                   !.bearer = Null, !.stream = "none"]
         IN IF missing = "apiBaseUrl"
              THEN TokenError(called, TransportError)
              ELSE [called EXCEPT !.pc = "awaitToken"]

InvokeCalls(tok, exp) == IF CacheValid(tok, exp, now) THEN 0 ELSE 1

\* ------------------------------------------------------- handleFileChange
ArmedFor(p) == {t \in timers : t.path = p}

\* variants of the cancellation: none at all, and one that cancels the
\* timers of every path
ClearNothing(ts, id) == ts
ClearEveryTimer(ts, id) == {}

\* line 185: clearTimeout(debounceTimers.get(filePath))
ClearTimeout(ts, id) == {t \in ts : t.id # id}

\* line 192: the delay handed to setTimeout
FireAt(t) == t + debounceMs

\* the timers phase of the event loop runs before any other callback
TimerDue == \E t \in timers : t.fireAt <= now

\* ------------------------------------------------- start, watcher, signal
\* variant: the call returns without ending the process
KeepsRunning(code) == Running

\* process.exit(code), lines 27-47, 214, 253
ProcessExit(code) == code

\* lines 25-48: the checks of the configuration
ConfigValid(m) == m \notin ValidatedSettings

\* variant: the directory is taken to be there
AssumesDirectory(m, d) == TRUE

\* line 212: fs.existsSync(config.watchDirectory), false for a path that is
\* undefined
ExistsSync(m, d) == m # "watchDirectory" /\ d

\* lines 229-254: the handlers initializeWatcher registers
Registered == {"add", "change", "error", "ready", "SIGINT"}

\* line 14: config.fileExtension, FILE_EXTENSION or '.bar'
fileExtension == <<".", "b", "a", "r">>

\* the characters of a file name
Chars(f) ==
  CASE f = "a.bar" -> <<"a", ".", "b", "a", "r">>
    [] f = "b.bar" -> <<"b", ".", "b", "a", "r">>
    [] f = "d.BAR" -> <<"d", ".", "B", "A", "R">>
    [] f = "bar" -> <<"b", "a", "r">>

\* path.extname of a base name: from its last dot to its end, empty when
\* there is no dot or the only dot is the first character
ExtName(cs) ==
  LET dots == {i \in 1..Len(cs) : cs[i] = "."}
      last == CHOOSE i \in dots : \A j \in dots : j <= i
  IN IF dots = {} \/ dots = {1} THEN <<>> ELSE SubSeq(cs, last, Len(cs))

\* variant: the handler forwards every path
ForwardsAll(f) == TRUE

\* lines 231, 237: path.extname(filePath) === config.fileExtension
Forwards(f) == ExtName(Chars(f)) = fileExtension

\* the process is alive
Alive == exitCode = Running

\* the watcher exists
Created == Alive /\ watcher \in {"scanning", "ready"}

\* the watcher reports file events: it has completed its first scan, of
\* which it reports nothing (ignoreInitial, line 221), and said so
Watching == Alive /\ watcher = "ready"

\* lines 50-55, before the first statement of the module has run
Init ==
  /\ now = 0
  /\ cachedToken = Null
  /\ tokenExpiry = Null
  /\ debounceTimers = [p \in Files |-> NoTimer]
  /\ timers = {}
  /\ timerSeq = 0
  /\ att = [a \in Attempts |-> IdleAttempt]
  /\ nAtt = 0
  /\ tokenCalls = 0
  /\ lastCall = [p \in Files |-> Never]
  /\ bursts = [p \in Files |-> 0]
  /\ triggers = [p \in Files |-> 0]
  /\ missing \in {AllSet} \cup Settings
  /\ dirExists \in BOOLEAN
  /\ exitCode = Running
  /\ watcher = "none"
  /\ handlers = {}
  /\ notices = [k \in NoticeKinds |-> 0]
  /\ events = 0

\* lines 180-196
HandleFileChange(p) ==
  /\ Watching
  /\ ~TimerDue
  /\ events < MaxEvents
  /\ debounceTimers[p] = NoTimer => nAtt + Cardinality(timers) < MaxAttempts
  /\ LET id == timerSeq + 1
         kept == IF debounceTimers[p] # NoTimer
                   THEN ClearTimeout(timers, debounceTimers[p])
                   ELSE timers
     IN /\ timers' = kept \cup {[id |-> id, path |-> p, fireAt |-> FireAt(now)]}
        /\ debounceTimers' = [debounceTimers EXCEPT ![p] = id]
        /\ timerSeq' = id
  /\ bursts' = [bursts EXCEPT ![p] =
                  IF lastCall[p] = Never \/ now - lastCall[p] >= debounceMs
                    THEN @ + 1 ELSE @]
  /\ lastCall' = [lastCall EXCEPT ![p] = now]
  /\ events' = events + 1
  /\ UNCHANGED <<now, cachedToken, tokenExpiry, att, nAtt, tokenCalls, triggers>>
  /\ UNCHANGED <<envVars, exitCode, watchVars>>

\* lines 189-192: the timer callback, and uploadBarFile up to its first
\* suspension
TimerFires(p, file) ==
  \E t \in ArmedFor(p) :
    /\ Alive
    /\ t.fireAt <= now
    /\ nAtt < MaxAttempts
    /\ timers' = timers \ {t}
    /\ debounceTimers' = [debounceTimers EXCEPT ![p] = NoTimer]
    /\ triggers' = [triggers EXCEPT ![p] = @ + 1]
    /\ nAtt' = nAtt + 1
    /\ att' = [att EXCEPT ![nAtt + 1] =
                 Invoke([IdleAttempt EXCEPT !.path = p],
                        cachedToken, tokenExpiry, file)]
    /\ tokenCalls' = tokenCalls + InvokeCalls(cachedToken, tokenExpiry)
    /\ lastCall' = [lastCall EXCEPT ![p] = Never]
    /\ exitCode' = AfterOpen(att'[nAtt + 1], AfterSettled(att'[nAtt + 1], exitCode))
    /\ UNCHANGED <<now, cachedToken, tokenExpiry, timerSeq, bursts>>
    /\ UNCHANGED <<envVars, watchVars, events>>

\* lines 93-100 and 120-147: the token call succeeded
TokenOk(a, file) ==
  /\ Alive
  /\ ~TimerDue
  /\ att[a].pc = "awaitToken"
  /\ events < MaxEvents
  /\ cachedToken' = IssuedToken
  /\ tokenExpiry' = NewExpiry(now)
  /\ att' = [att EXCEPT ![a] =
               IssueUpload([@ EXCEPT !.token = IssuedToken, !.log = Append(@, "tokenOk")],
                           file)]
  /\ exitCode' = AfterOpen(att'[a], AfterSettled(att'[a], exitCode))
  /\ events' = events + 1
  /\ UNCHANGED <<now, nAtt, tokenCalls>>
  /\ UNCHANGED <<timerVars, envVars, watchVars>>

\* lines 88-91, 101-104, 168-173: the token call answered a non-success
\* status, or was rejected at transport level (status = TransportError)
TokenFails(a, status) ==
  /\ Alive
  /\ ~TimerDue
  /\ att[a].pc = "awaitToken"
  /\ events < MaxEvents
  /\ cachedToken' = TokenAfterFailure(cachedToken)
  /\ tokenExpiry' = TokenAfterFailure(tokenExpiry)
  /\ att' = [att EXCEPT ![a] = TokenError(@, status)]
  /\ exitCode' = AfterSettled(att'[a], exitCode)
  /\ events' = events + 1
  /\ UNCHANGED <<now, nAtt, tokenCalls>>
  /\ UNCHANGED <<timerVars, envVars, watchVars>>

\* the request body after the call has settled: read to its end, which
\* closes the stream (autoClose), or left as it was
Drained(rec, read) ==
  [rec EXCEPT !.stream = IF read THEN "drained" ELSE @]

\* lines 138-173: the PUT settled.  A response means the body was read to
\* its end; a call that fails at transport level may have read it or not.
\* The retry of line 165 finds the cache cleared and suspends on the token
\* call before it reaches the file, so the state of the file plays no part
\* in this step.
UploadResponse(a, status, file) ==
  /\ Alive
  /\ ~TimerDue
  /\ att[a].pc = "awaitUpload"
  /\ events < MaxEvents
  /\ IF status = TransportError
       THEN /\ \E read \in BOOLEAN :
                 att' = [att EXCEPT ![a] = Catch(Drained(@, read), "reject")]
            /\ UNCHANGED <<cachedToken, tokenExpiry, tokenCalls>>
       ELSE LET seen == [Drained(att[a], TRUE) EXCEPT
                           !.log = Append(@, StatusEntry(status))]
            IN IF ResponseOk(status)
                 THEN /\ att' = [att EXCEPT ![a] = Returns(seen, "success")]
                      /\ UNCHANGED <<cachedToken, tokenExpiry, tokenCalls>>
                 ELSE IF ShouldRetry(status, cachedToken)
                   THEN /\ cachedToken' = Invalidated(cachedToken)
                        /\ tokenExpiry' = Invalidated(tokenExpiry)
                        /\ att' = [att EXCEPT ![a] =
                                     Invoke([seen EXCEPT
                                               !.log = Append(@, "invalidate")],
                                            cachedToken', tokenExpiry', file)]
                        /\ tokenCalls' = tokenCalls
                                         + InvokeCalls(cachedToken', tokenExpiry')
                   ELSE /\ att' = [att EXCEPT ![a] = Returns(seen, "failed")]
                        /\ UNCHANGED <<cachedToken, tokenExpiry, tokenCalls>>
  /\ exitCode' = AfterOpen(att'[a], AfterSettled(att'[a], exitCode))
  /\ events' = events + 1
  /\ UNCHANGED <<now, nAtt>>
  /\ UNCHANGED <<timerVars, envVars, watchVars>>

\* lines 25-48 and 258-260 with 201-254: the module is evaluated; the
\* program exits with status 1, or the watcher is created and the handlers
\* are registered
Start ==
  /\ Alive
  /\ watcher = "none"
  /\ IF ConfigValid(missing) /\ ExistsSync(missing, dirExists)
       THEN /\ watcher' = "scanning"
            /\ handlers' = Registered
            /\ UNCHANGED exitCode
       ELSE /\ exitCode' = ProcessExit(1)
            /\ UNCHANGED <<watcher, handlers>>
  /\ UNCHANGED <<now, cachedToken, tokenExpiry, att, nAtt, tokenCalls>>
  /\ UNCHANGED <<timerVars, envVars, notices, events>>

\* variant: the callback treats the notification as fatal
FatalNotice(kind) ==
  /\ Created
  /\ ~TimerDue
  /\ events < MaxEvents
  /\ notices' = [notices EXCEPT ![kind] = @ + 1]
  /\ events' = events + 1
  /\ exitCode' = 1
  /\ watcher' = "closed"
  /\ UNCHANGED <<now, cachedToken, tokenExpiry, att, nAtt, tokenCalls>>
  /\ UNCHANGED <<timerVars, envVars, handlers>>

\* a watcher callback that leaves every variable of the program as it is
Notice(kind) ==
  /\ Created
  /\ ~TimerDue
  /\ events < MaxEvents
  /\ notices' = [notices EXCEPT ![kind] = @ + 1]
  /\ events' = events + 1
  /\ UNCHANGED <<now, cachedToken, tokenExpiry, att, nAtt, tokenCalls>>
  /\ UNCHANGED <<timerVars, envVars, exitCode, watcher, handlers>>

\* lines 230-241: the 'add' and the 'change' handler
OnAddOrChange(kind, f) ==
  /\ Watching
  /\ kind \in handlers
  /\ IF Forwards(f) THEN HandleFileChange(f) ELSE Notice("ignored")

\* lines 242-244: the 'error' handler
OnError ==
  /\ "error" \in handlers
  /\ Notice("error")

\* lines 245-247: the 'ready' handler; the watcher reports the end of its
\* first scan once
OnReady ==
  /\ Alive
  /\ watcher = "scanning"
  /\ "ready" \in handlers
  /\ watcher' = "ready"
  /\ UNCHANGED <<now, cachedToken, tokenExpiry, att, nAtt, tokenCalls>>
  /\ UNCHANGED <<timerVars, envVars, exitCode, handlers, notices, events>>

\* lines 250-254: the SIGINT handler
Sigint ==
  /\ Alive
  /\ "SIGINT" \in handlers
  /\ ~TimerDue
  /\ events < MaxEvents
  /\ watcher' = "closed"
  /\ exitCode' = ProcessExit(0)
  /\ UNCHANGED <<now, cachedToken, tokenExpiry, att, nAtt, tokenCalls>>
  /\ UNCHANGED <<timerVars, envVars, handlers, notices, events>>

\* the clock: one millisecond while a timer is armed (never past a deadline)
Tick ==
  /\ Alive
  /\ timers # {}
  /\ ~TimerDue
  /\ now' = now + 1
  /\ UNCHANGED <<cachedToken, tokenExpiry, att, nAtt, tokenCalls>>
  /\ UNCHANGED <<timerVars, envVars, exitCode, watchVars, events>>

\* the clock: a quiet stretch while no timer is armed and a cached token is
\* there to outlive; it ends one debounce interval before that token expires,
\* so that a change detected then starts its upload at the expiry, and a
\* later one after it
LongWait ==
  /\ Watching
  /\ timers = {}
  /\ cachedToken # Null
  /\ tokenExpiry # Null
  /\ now < tokenExpiry - debounceMs
  /\ now' = tokenExpiry - debounceMs
  /\ UNCHANGED <<cachedToken, tokenExpiry, att, nAtt, tokenCalls>>
  /\ UNCHANGED <<timerVars, envVars, exitCode, watchVars, events>>

Next ==
  \/ Start
  \/ \E kind \in {"add", "change"}, f \in Files : OnAddOrChange(kind, f)
  \/ OnError
  \/ OnReady
  \/ Sigint
  \/ \E p \in Files, file \in FileStates : TimerFires(p, file)
  \/ \E a \in Attempts, file \in FileStates : TokenOk(a, file)
  \/ \E a \in Attempts, s \in TokenFailStatuses \cup {TransportError} : TokenFails(a, s)
  \/ \E a \in Attempts, s \in UploadStatuses \cup {TransportError} :
        UploadResponse(a, s, "ok")
  \/ Tick
  \/ LongWait

Spec == Init /\ [][Next]_vars

\* ===================================================================
\* Properties
\* ===================================================================
Uploads(a) == Count(att[a].log, "upload")
Invalidations(a) == Count(att[a].log, "invalidate")
InFlightTokenCalls == {a \in Attempts : att[a].pc = "awaitToken"}

\* the entries this step appends to the log of attempt a
Appends(a, e) ==
  \E i \in (Len(att[a].log) + 1)..Len(att'[a].log) : att'[a].log[i] = e

\* e is directly followed by f somewhere in s
Follows(s, e, f) == \E i \in 1..(Len(s) - 1) : s[i] = e /\ s[i + 1] = f

\* C1: when the upload endpoint answers 401 and then 401 to one attempt, the
\* attempt makes exactly 2 upload calls, no third one, and its end is a
\* failure.
C1_SecondUnauthorizedIsTerminal ==
  \A a \in Attempts :
    LET r == Responses(att[a].log)
    IN (Len(r) >= 2 /\ r[1] = "r401" /\ r[2] = "r401")
         => /\ Uploads(a) = 2
            /\ (att[a].pc = "done" => att[a].result = "failed")

\* C2: an attempt whose upload calls were answered 401 and then 200 made
\* exactly 2 upload calls and exactly 1 invalidation, acquired a new token
\* between the two upload calls, and ended in success.
C2_RetryAfterUnauthorized ==
  \A a \in Attempts :
    Responses(att[a].log) = <<"r401", "r200">>
      => /\ Uploads(a) = 2
         /\ Invalidations(a) = 1
         /\ Follows(att[a].log, "r401", "invalidate")
         /\ Follows(att[a].log, "invalidate", "tokenCall")
         /\ Follows(att[a].log, "tokenCall", "tokenOk")
         /\ Follows(att[a].log, "tokenOk", "upload")
         /\ Follows(att[a].log, "upload", "r200")
         /\ att[a].pc = "done"
         /\ att[a].result = "success"

C2_Witness ==
  \E a \in Attempts :
    /\ att[a].log = <<"cached", "upload", "r401", "invalidate", "tokenCall",
                      "tokenOk", "upload", "r200">>
    /\ att[a].result = "success"

\* C3: an upload answer with a non-2xx status other than 401, or a transport
\* failure of the upload call, ends the attempt in failure without a retry
\* and without touching cachedToken or tokenExpiry; when it answers the
\* first upload call, the attempt made exactly 1 upload call and no
\* invalidation.
C3_OtherErrorsAreTerminal ==
  /\ [](\A a \in Attempts :
          LET r == Responses(att[a].log)
          IN (Len(r) >= 1 /\ r[Len(r)] \in {"r500", "reject"})
               => /\ att[a].pc = "done"
                  /\ att[a].result = "failed"
                  /\ Uploads(a) = Len(r)
                  /\ (Len(r) = 1 => Uploads(a) = 1 /\ Invalidations(a) = 0))
  /\ [][\A a \in Attempts :
          (Appends(a, "r500") \/ Appends(a, "reject"))
            => /\ cachedToken' = cachedToken
               /\ tokenExpiry' = tokenExpiry
               /\ ~Appends(a, "invalidate")
               /\ ~Appends(a, "upload")]_vars

C3_Witness ==
  \E a \in Attempts :
    /\ Responses(att[a].log) = <<"r500">>
    /\ att[a].result = "failed"
    /\ cachedToken # Null

\* C4: a burst of handleFileChange(p) calls, each less than debounceMs after
\* the previous one, is answered by exactly one timer callback for p, run
\* debounceMs after the last call of the burst: a call leaves one armed
\* timer for p, due debounceMs after it, and every callback for p runs at
\* that deadline and leaves no armed timer for p behind.
C4_OneTriggerPerBurst ==
  /\ [](\A p \in Paths :
          /\ Cardinality(ArmedFor(p)) <= 1
          /\ triggers[p] + Cardinality(ArmedFor(p)) = bursts[p]
          /\ \A t \in ArmedFor(p) :
               /\ lastCall[p] # Never
               /\ t.fireAt = lastCall[p] + debounceMs
               /\ now <= t.fireAt)
  /\ [][\A p \in Paths :
          triggers'[p] # triggers[p]
            => /\ triggers'[p] = triggers[p] + 1
               /\ lastCall[p] # Never
               /\ now = lastCall[p] + debounceMs
               /\ ArmedFor(p)' = {}]_vars

\* a burst of two calls one millisecond apart was answered by one callback
C4_Witness ==
  \E p \in Paths :
    /\ bursts[p] = 1
    /\ triggers[p] = 1
    /\ timerSeq >= 2
    /\ \A q \in Paths \ {p} : bursts[q] = 0
    /\ now = debounceMs + 1

\* C5: handleFileChange(p1) and the timer callback of p1 (the steps that
\* replace or remove the map entry of p1) leave the armed timer and the map
\* entry of every other path p2 as they were, and every path with a map
\* entry has its own armed timer.
C5_PathsIndependent ==
  /\ [](\A p \in Paths :
          debounceTimers[p] # NoTimer
            => \E t \in ArmedFor(p) : t.id = debounceTimers[p])
  /\ [][\A p \in Paths :
          (debounceTimers'[p] # debounceTimers[p] \/ triggers'[p] # triggers[p])
            => \A q \in Paths \ {p} :
                 /\ ArmedFor(q)' = ArmedFor(q)
                 /\ debounceTimers'[q] = debounceTimers[q]
                 /\ triggers'[q] = triggers[q]]_vars

\* calls for two paths were interleaved and each path got its one callback
C5_Witness ==
  /\ \A p \in Paths : bursts[p] = 1 /\ triggers[p] = 1
  /\ timerSeq = 3

\* attempt a makes its first generateToken() call in this step
Starts(a) == att[a].pc = "idle" /\ att'[a].pc # "idle"

\* C6: a generateToken() call made while a token is cached and its validity
\* window has not elapsed returns that cached token, issues no external
\* token call and leaves the cache as it is; the token an acquisition
\* returns is the value it cached, so the call that acquired the token and
\* the calls that follow within the window return the identical value with
\* exactly one external call in total.
C6_CachedTokenReused ==
  [][\A a \in Attempts :
       /\ (Starts(a) /\ cachedToken # Null /\ tokenExpiry # Null
                     /\ now < tokenExpiry)
            => /\ att'[a].log[1] = "cached"
               /\ att'[a].token = cachedToken
               /\ tokenCalls' = tokenCalls
               /\ cachedToken' = cachedToken
               /\ tokenExpiry' = tokenExpiry
       /\ Appends(a, "tokenOk") => att'[a].token = cachedToken']_vars

\* the first attempt acquired a token, the second one was handed the same
\* value from the cache: two calls, one external call
C6_Witness ==
  /\ nAtt = 2
  /\ tokenCalls = 1
  /\ att[1].log[1] = "tokenCall"
  /\ att[2].log[1] = "cached"
  /\ att[1].token = att[2].token
  /\ att[2].token # Null

\* C7: at most one external token-acquisition call is in flight at any time.
C7_SingleFlight == Cardinality(InFlightTokenCalls) <= 1

\* C8: when the 401 branch clears cachedToken and tokenExpiry, the
\* generateToken() call that follows issues a new external token call,
\* whatever the cleared expiry was; and every generateToken() call that
\* finds cachedToken cleared issues one.
C8_InvalidateForcesAcquisition ==
  [][\A a \in Attempts :
       /\ Appends(a, "invalidate")
            => /\ cachedToken' = Null
               /\ tokenExpiry' = Null
               /\ att'[a].log[Len(att'[a].log)] = "tokenCall"
               /\ att'[a].pc = "awaitToken"
               /\ tokenCalls' = tokenCalls + 1
       /\ (Starts(a) /\ cachedToken = Null)
            => /\ att'[a].log[1] = "tokenCall"
               /\ tokenCalls' = tokenCalls + 1]_vars

\* a token was invalidated well inside its window while another attempt was
\* in flight, and the retry is waiting for its own acquisition
C8_Witness ==
  \E a \in Attempts :
    /\ Follows(att[a].log, "invalidate", "tokenCall")
    /\ att[a].pc = "awaitToken"
    /\ now < TokenTtlMs
    /\ \E b \in Attempts \ {a} : att[b].pc = "awaitUpload"

\* C9: a generateToken() call made when the clock has reached or passed
\* tokenExpiry is not answered from the cache but issues a new external
\* token call; when that call succeeds, its token is returned and cached
\* with an expiry 50 minutes after the current clock.
C9_ExpiredTokenReacquired ==
  [][\A a \in Attempts :
       /\ (Starts(a) /\ tokenExpiry # Null /\ now >= tokenExpiry)
            => /\ att'[a].log[1] = "tokenCall"
               /\ att'[a].pc = "awaitToken"
               /\ tokenCalls' = tokenCalls + 1
       /\ Appends(a, "tokenOk")
            => /\ cachedToken' # Null
               /\ att'[a].token = cachedToken'
               /\ tokenExpiry' = now + 50 * 60 * 1000]_vars

\* an attempt started at or after the expiry of the cached token, acquired
\* a different token and cached it with a new window
C9_Witness ==
  /\ nAtt = 2
  /\ att[2].log[1] = "tokenCall"
  /\ Count(att[2].log, "tokenOk") = 1
  /\ att[2].token # att[1].token
  /\ cachedToken = att[2].token
  /\ tokenExpiry >= 2 * TokenTtlMs
  /\ att[1].token # Null

\* C10: when the token call answers a non-success status, generateToken()
\* fails with an error carrying that status, the attempt gets no token, and
\* cachedToken and tokenExpiry are left as they were; a cached token always
\* stems from a successful acquisition.
C10_FailedAcquisitionCachesNothing ==
  /\ [](cachedToken # Null
          => \E a \in Attempts : Count(att[a].log, "tokenOk") > 0)
  /\ [][\A a \in Attempts :
          Appends(a, "tokenFail")
            => /\ cachedToken' = cachedToken
               /\ tokenExpiry' = tokenExpiry
               /\ att'[a].err \in TokenFailStatuses
               /\ att'[a].token = Null
               /\ att'[a].pc = "done"
               /\ att'[a].result = "failed"]_vars

\* an acquisition failed with status 401 while the cache held the token of
\* another attempt, which is still there
C10_Witness ==
  \E a \in Attempts :
    /\ att[a].log = <<"tokenCall", "tokenFail">>
    /\ att[a].err = 401
    /\ cachedToken # Null

TokenFailEntries == {"tokenFail", "tokenReject"}

\* C11: when generateToken() fails in an attempt, the failure is the last
\* thing the attempt does: it ends in failure without a token, opens no
\* file and issues no upload call and no further token call afterwards; an
\* attempt whose first acquisition fails has made one token call and nothing
\* else, and an attempt that has ended never acts again.
C11_TokenFailureEndsAttempt ==
  /\ [](\A a \in Attempts :
          \A i \in 1..Len(att[a].log) :
            att[a].log[i] \in TokenFailEntries
              => /\ i = Len(att[a].log)
                 /\ att[a].pc = "done"
                 /\ att[a].result = "failed"
                 /\ att[a].token = Null
                 /\ (Invalidations(a) = 0
                       => /\ att[a].log = <<"tokenCall", att[a].log[i]>>
                          /\ Uploads(a) = 0))
  /\ [][\A a \in Attempts :
          att[a].pc = "done" => att'[a] = att[a]]_vars

\* the token call of an attempt was rejected at transport level, with the
\* base URL configured
C11_Witness ==
  \E a \in Attempts :
    /\ att[a].log = <<"tokenCall", "tokenReject">>
    /\ att[a].result = "failed"
    /\ missing = AllSet

\* attempt a takes a step after its first one
Continues(a) == att[a].pc # "idle" /\ att'[a] # att[a]

\* C12: a step of an upload attempt leaves the debounce map and the armed
\* timers of every path as they are (the first step, which the timer
\* callback of its own path makes, those of every other path), whatever its
\* outcome; and while no termination signal has arrived, an armed timer
\* means a live process, in which a due timer can run its callback and
\* start its attempt, whatever attempts have failed before.
C12_FailuresAreIsolated ==
  /\ [](\A p \in Paths :
          (watcher # "closed" /\ ArmedFor(p) # {})
            => /\ Alive
               /\ (\E t \in ArmedFor(p) : t.fireAt <= now)
                    => ENABLED TimerFires(p, "ok"))
  /\ [][\A a \in Attempts :
          /\ Continues(a)
               => /\ debounceTimers' = debounceTimers
                  /\ timers' = timers
          /\ Starts(a)
               => \A q \in Files \ {att'[a].path} :
                    /\ debounceTimers'[q] = debounceTimers[q]
                    /\ ArmedFor(q)' = ArmedFor(q)]_vars

\* C13: no step of uploadBarFile ends the process, and whatever fails (the
\* token acquisition, the file read, the upload with a non-2xx status or at
\* transport level), the promise of uploadBarFile is fulfilled, never
\* rejected.
C13_UploadNeverThrows ==
  /\ [](\A a \in Attempts :
          /\ att[a].promise # "rejected"
          /\ att[a].pc = "done" <=> att[a].promise = "fulfilled"
          /\ att[a].pc = "done" <=> att[a].result # "none")
  /\ [][\A a \in Attempts :
          att'[a] # att[a] => exitCode' = exitCode]_vars

\* C14: the SIGINT handler closes the watcher and ends the process with
\* status 0; from then on no timer callback runs and no upload attempt
\* starts, so the timers pending at the signal never fire.
C14_SigintStopsTimers ==
  /\ [](watcher = "closed" => exitCode = 0)
  /\ [](exitCode = 0 => watcher = "closed")
  /\ [][watcher = "closed"
          => /\ triggers' = triggers
             /\ nAtt' = nAtt
             /\ timerSeq' = timerSeq
             /\ exitCode' = exitCode
             /\ watcher' = watcher]_vars

\* the signal arrived while a debounce timer was pending
C14_Witness ==
  /\ exitCode = 0
  /\ watcher = "closed"
  /\ timers # {}
  /\ \E p \in Paths : debounceTimers[p] # NoTimer

InFlight == {a \in Attempts : att[a].pc \in {"awaitToken", "awaitUpload"}}

\* C15: the process does not end on the termination signal while an upload
\* attempt that has started is still short of its success or failure.
C15_StartedAttemptsFinish == exitCode = 0 => InFlight = {}

\* C16: a notification for a file whose extension is not .bar creates no
\* debounce entry and arms no timer, and no callback and no upload attempt
\* ever runs for such a file; every debounce entry that is created belongs
\* to a file with the extension .bar.
C16_OnlyBarFilesForwarded ==
  /\ [](\A f \in OtherFiles :
          /\ debounceTimers[f] = NoTimer
          /\ ArmedFor(f) = {}
          /\ triggers[f] = 0
          /\ \A a \in Attempts : att[a].path # f)
  /\ [][/\ \A f \in Files :
             debounceTimers'[f] \notin {debounceTimers[f], NoTimer}
               => f \in Paths
        /\ notices'["ignored"] # notices["ignored"]
             => /\ debounceTimers' = debounceTimers
                /\ timers' = timers
                /\ att' = att
                /\ nAtt' = nAtt]_vars

\* a file with another extension was reported and left alone, a .bar file
\* was reported and its upload attempt has started
C16_Witness ==
  /\ notices["ignored"] > 0
  /\ timerSeq > 0
  /\ nAtt > 0

\* C17: with a required setting absent the process ends with a non-zero
\* status before the watcher is created: no watcher, no handler, no file
\* event dispatched, no external call.
C17_MissingSettingStopsStart ==
  missing # AllSet
    => /\ watcher = "none"
       /\ handlers = {}
       /\ exitCode # 0
       /\ timerSeq = 0
       /\ tokenCalls = 0

\* C18: when the configured watch directory does not exist, the program
\* ends with status 1 with no watcher created and no handler registered.
C18_MissingDirectoryStopsStart ==
  /\ [](~dirExists
          => /\ watcher = "none"
             /\ handlers = {}
             /\ exitCode \in {Running, 1})
  /\ [][~dirExists
          => /\ exitCode' = 1
             /\ watcher' = "none"
             /\ handlers' = {}]_vars

\* every setting is there, the directory is not, and the program has ended
C18_Witness ==
  /\ ~dirExists
  /\ missing = AllSet
  /\ exitCode = 1
  /\ watcher = "none"

\* C19: the 'error' and the 'ready' callback of the watcher leave the
\* debounce map, the armed timers, the token cache and every upload attempt
\* as they are, and leave the process alive with its watcher and its
\* handlers, so that later notifications are handled.
C19_WatcherNoticesChangeNothing ==
  [][(notices'["error"] # notices["error"]
        \/ (watcher = "scanning" /\ watcher' = "ready"))
       => /\ debounceTimers' = debounceTimers
          /\ timers' = timers
          /\ cachedToken' = cachedToken
          /\ tokenExpiry' = tokenExpiry
          /\ att' = att
          /\ nAtt' = nAtt
          /\ handlers' = handlers
          /\ Created']_vars

\* after the 'ready' and an 'error' notification a file change was taken
\* up: a token is cached, an attempt is in flight, a timer is armed
C19_Witness ==
  /\ notices["error"] > 0
  /\ watcher = "ready"
  /\ cachedToken # Null
  /\ InFlight # {}
  /\ timers # {}

\* C20: every attempt whose first upload call was answered 401 invalidates
\* the token and goes on to a second token read, whatever other attempts
\* have done to the token cache.
C20_RetryIndependentOfOthers ==
  \A a \in Attempts :
    LET r == Responses(att[a].log)
    IN (Len(r) >= 1 /\ r[1] = "r401") => Invalidations(a) >= 1


\* C21: every attempt ends: with the retry budget of one, an attempt that
\* has received the answer to its second upload call has ended, in success
\* or in failure, whatever the answers were.
C21_AttemptsTerminate ==
  \A a \in Attempts :
    Len(Responses(att[a].log)) >= 2 => att[a].pc = "done"

\* the entry before the last one of a log
Before(l) == IF Len(l) >= 2 THEN l[Len(l) - 1] ELSE "none"

\* C22: an upload call is issued right after generateToken() returned a
\* token to the same attempt, from the cache or from the token endpoint, and
\* its authorization header carries that token; with an empty cache, one
\* file event and a 200 answer, the attempt calls the token endpoint once,
\* then the upload endpoint once, and does not retry.
C22_UploadCarriesToken ==
  /\ [](\A a \in Attempts :
          (timerSeq = 1 /\ Responses(att[a].log) = <<"r200">>)
            => /\ att[a].log = <<"tokenCall", "tokenOk", "upload", "r200">>
               /\ tokenCalls = 1
               /\ Invalidations(a) = 0
               /\ att[a].result = "success")
  /\ [][\A a \in Attempts :
          Appends(a, "upload")
            => /\ Before(att'[a].log) \in {"cached", "tokenOk"}
               /\ att'[a].bearer # Null
               /\ att'[a].bearer = att'[a].token
               /\ att'[a].bearer = cachedToken']_vars

\* the example scenario has run to its end with the token of the one call
C22_Witness ==
  /\ timerSeq = 1
  /\ nAtt = 1
  /\ tokenCalls = 1
  /\ att[1].log = <<"tokenCall", "tokenOk", "upload", "r200">>
  /\ att[1].bearer = cachedToken
  /\ att[1].bearer # Null

\* C23 as stated: in every state a token value is stored exactly when an
\* expiry is stored and lies in the future of the clock.
C23_TokenIffExpiryInFuture ==
  cachedToken # Null <=> (tokenExpiry # Null /\ now < tokenExpiry)

\* C23, amended: a stored token value always has an expiry stored with it
\* (the two are set together and cleared together); a stored token may
\* outlive its expiry, and generateToken() answers from the cache only with
\* the stored token and only while the clock is before the stored expiry.
C23_StoredTogetherReturnedWhileValid ==
  /\ [](cachedToken # Null => tokenExpiry # Null)
  /\ [][\A a \in Attempts :
          Appends(a, "cached")
            => /\ cachedToken # Null
               /\ tokenExpiry # Null
               /\ now < tokenExpiry
               /\ att'[a].token = cachedToken]_vars

\* a token is stored past its expiry and the attempt that started then has
\* gone to the token endpoint
C23_Witness ==
  /\ cachedToken # Null
  /\ now >= tokenExpiry
  /\ \E a \in Attempts :
       /\ att[a].log = <<"tokenCall">>
       /\ att[a].pc = "awaitToken"

\* C24: debounceTimers has an entry for a path exactly when one timer is
\* armed for it, and the entry is the handle of that timer, so that a timer
\* that was replaced is armed no more and cannot fire; the callback of a
\* timer is that of the entry of its path, and the step that runs it removes
\* the entry and starts the upload for that path.
C24_OneEntryPerArmedTimer ==
  /\ [](\A p \in Files :
          /\ debounceTimers[p] # NoTimer <=> ArmedFor(p) # {}
          /\ Cardinality(ArmedFor(p)) <= 1
          /\ \A t \in ArmedFor(p) : t.id = debounceTimers[p])
  /\ [](\A t \in timers : t.id <= timerSeq /\ t.path \in Paths)
  /\ [][\A p \in Files :
          triggers'[p] # triggers[p]
            => /\ debounceTimers[p] # NoTimer
               /\ \E t \in timers \ timers' :
                    t.path = p /\ t.id = debounceTimers[p]
               /\ debounceTimers'[p] = NoTimer
               /\ nAtt' = nAtt + 1
               /\ att[nAtt'].pc = "idle"
               /\ att'[nAtt'].path = p
               /\ att'[nAtt'].pc # "idle"]_vars

\* the timer of one path was replaced and its second timer is armed alone,
\* while the timer of the other path has fired and left no entry
C24_Witness ==
  \E p, q \in Paths :
    /\ p # q
    /\ timerSeq = 3
    /\ debounceTimers[p] = 3
    /\ \A t \in ArmedFor(p) : t.id = 3
    /\ triggers[p] = 0
    /\ triggers[q] = 1
    /\ debounceTimers[q] = NoTimer

\* C25: the callback of a debounce timer starts exactly one upload attempt,
\* for the path of the timer, and leaves the other attempts as they are; and
\* the callback of an armed timer always comes: a timer is armed only in a
\* process that is running or was shut down by the termination signal, never
\* in one that has ended otherwise, where the callback can no longer run.
C25_FiringFollowsAndStartsOne ==
  /\ [](\A p \in Paths : ArmedFor(p) # {} => exitCode \in {Running, 0})
  /\ [][\A p \in Paths :
          triggers'[p] # triggers[p]
            => /\ triggers'[p] = triggers[p] + 1
               /\ nAtt' = nAtt + 1
               /\ att'[nAtt'].path = p
               /\ \A b \in Attempts \ {nAtt'} : att'[b] = att[b]]_vars

\* C26: the callback of a timer for p runs also while an earlier attempt for
\* p is awaiting an external call: a due timer can run its callback then,
\* its step starts a further attempt for p, which goes on to its token or
\* its upload, and leaves the attempts in flight as they are.
C26_SamePathAttemptsOverlap ==
  /\ [](\A p \in Paths :
          (/\ Alive
           /\ \E t \in ArmedFor(p) : t.fireAt <= now
           /\ \E b \in InFlight : att[b].path = p)
            => ENABLED TimerFires(p, "ok"))
  /\ [][\A p \in Paths :
          (/\ triggers'[p] # triggers[p]
           /\ \E b \in InFlight : att[b].path = p)
            => /\ att'[nAtt'].path = p
               /\ att'[nAtt'].log # <<>>
               /\ att'[nAtt'].log[1] \in {"cached", "tokenCall"}
               /\ \A b \in InFlight : att'[b] = att[b]]_vars

\* two attempts for the same path are awaiting an external call
C26_Witness ==
  \E a, b \in InFlight :
    /\ a # b
    /\ att[a].path = att[b].path
    /\ Alive

\* the streams of attempt a that are neither unopened nor closed
Open(a) == att[a].stream \notin {"none", "drained", "errored"}

\* C27: when an attempt has ended, in success, on a non-2xx answer, on the
\* failure to read the size of the file or on a transport failure, the
\* stream it opened on the file is open no more.
C27_StreamReleasedOnEveryExit ==
  \A a \in Attempts : att[a].pc = "done" => ~Open(a)

\* C28: the invalidation of the 401 branch clears the cache only when the
\* cache holds the token the 401 answered: when it holds a newer token the
\* step leaves it there and issues no token call.
C28_InvalidatesOnlyRejectedToken ==
  [][\A a \in Attempts :
       (Appends(a, "r401") /\ cachedToken # Null /\ cachedToken # att[a].bearer)
         => /\ cachedToken' = cachedToken
            /\ tokenExpiry' = tokenExpiry
            /\ tokenCalls' = tokenCalls]_vars

TypeOK ==
  /\ now \in Nat
  /\ cachedToken \in 0..MaxEvents
  /\ nAtt \in 0..MaxAttempts
  /\ \A a \in Attempts :
       att[a].stream \in {"none", "sending", "drained", "leaked", "errored"}
====
